---- MODULE Spec2Model ----
(***************************************************************************)
(* xgb-rs: a handle-based Rust wrapper over the XGBoost C API.             *)
(*                                                                         *)
(* State: the DMatrix and Booster wrapper objects (src/src/dmatrix.rs,     *)
(* src/src/booster.rs) with the native objects behind their handles, the   *)
(* model files written by save_model, and the threads that share a         *)
(* Booster.  One action per public operation.  A native call's status is   *)
(* an input of the action (0 or non-zero) wherever the wrapper alone does  *)
(* not determine it.                                                       *)
(***************************************************************************)
EXTENDS Integers, Sequences, FiniteSets, TLC

VARIABLES dm, bst, file, thr, last, crashed

vars == <<dm, bst, file, thr, last, crashed>>

----------------------------------------------------------------------------
(* Bounds *)

MaxLen == 2
MaxDim == 2
MaxRounds == 3

DMs == {1, 2}
Boosters == {1, 2}
Threads == {1, 2}
MainThread == CHOOSE t \in Threads : \A u \in Threads : t <= u

\* f32 values a caller passes in (dataset-only specification)
Floats == {1, 2}
\* what a read past the end of the caller's buffer may yield
OobFloats == {1, 9}

----------------------------------------------------------------------------
(* Strings are byte sequences: CString::new looks at the bytes *)

StrLabel == <<108, 97, 98, 101, 108>>
KeyBooster == <<98, 111, 111, 115, 116, 101, 114>>
ValGblinear == <<103, 98, 108, 105, 110, 101, 97, 114>>
KeyNumClass == <<110, 117, 109, 95, 99, 108, 97, 115, 115>>
ValThree == <<51>>
StrWithNul == <<97, 0, 98>>
PathYee == <<121, 101, 101, 46, 106, 115, 111, 110>>
PathSilly == <<115, 105, 108, 108, 121>>

\* <<key, value>> pairs handed to set_conf
Confs == {<<KeyBooster, ValGblinear>>, <<KeyNumClass, ValThree>>, <<StrWithNul, ValGblinear>>}
Paths == {PathYee, PathSilly}
FNames == Paths \cup {StrWithNul}

\* CString::new(s): an interior NUL byte is an error
HasNul(s) == \E i \in 1..Len(s) : s[i] = 0
CStringNew(s) == IF HasNul(s) THEN [ok |-> FALSE, bytes |-> <<>>]
                 ELSE [ok |-> TRUE, bytes |-> s]

----------------------------------------------------------------------------
(* Results of the public operations: Result<T, XGBoostError / DMatrixError> *)

NoRes == [kind |-> "None", err |-> "", round |-> -1, key |-> <<>>, value |-> <<>>, vec |-> <<>>]
Ok(v) == [NoRes EXCEPT !.kind = "Ok", !.vec = v]
Err(e) == [NoRes EXCEPT !.kind = "Err", !.err = e]
ErrTrain(i) == [NoRes EXCEPT !.kind = "Err", !.err = "Train", !.round = i]
ErrConfig(k, v) == [NoRes EXCEPT !.kind = "Err", !.err = "Config", !.key = k, !.value = v]
Panic == [NoRes EXCEPT !.kind = "Panic"]
Abort == [NoRes EXCEPT !.kind = "Abort"]

\* one native call: function, iteration argument, DMatrix argument, status
Call(fn, it, d, s) == [fn |-> fn, iter |-> it, dmat |-> d, status |-> s]

Statuses == {0, -1}

\* i as i32 (booster.rs:84): wraps past i32::MAX
I32Max == 2147483647
ToI32(i) == IF i <= I32Max THEN i ELSE ((i - I32Max) - 1) - I32Max - 1
\* num_feats as usize (booster.rs:62): u64 to usize, the same width on the
\* 64-bit targets the build script supports
ToUsize(n) == n

RECURSIVE SumSeq(_)
SumSeq(s) == IF s = <<>> THEN 0 ELSE s[1] + SumSeq(Tail(s))

SeqsUpTo(S, n) == UNION {[1..k -> S] : k \in 0..n}

----------------------------------------------------------------------------
(* DMatrix (src/src/dmatrix.rs) *)

NoDM == [st |-> "none", own |-> 0, rows |-> 0, cols |-> 0, mat |-> <<>>,
         labSet |-> FALSE, lab |-> <<>>, frees |-> 0]

\* the last operation, its inputs and what it returned
NoLast == [op |-> "init", b |-> 0, d |-> 0, d2 |-> 0, n |-> 0, data |-> <<>>,
           rows |-> 0, cols |-> 0, key |-> <<>>, value |-> <<>>,
           res |-> NoRes, calls |-> <<>>, nout |-> 0, failAt |-> 0, kept |-> TRUE,
           model |-> [rounds |-> 0, nfeat |-> 0, groups |-> 1, fit |-> 0]]

\* what the native side reads through a pointer to `data` when told to read n
\* floats: the caller's values, then whatever lies past the end of the buffer
NativeRead(data, n, oob) ==
    [i \in 1..n |-> IF i <= Len(data) THEN data[i] ELSE oob[i - Len(data)]]

OobCount(data, n) == IF n > Len(data) THEN n - Len(data) ELSE 0

\* the outcomes of that read: within the buffer it yields the values; past the
\* end it is undefined behaviour, which faults or yields arbitrary floats
ReadOutcomes(data, n) ==
    { [crash |-> FALSE, read |-> NativeRead(data, n, oob)] :
        oob \in [1..OobCount(data, n) -> OobFloats] }
    \cup (IF OobCount(data, n) > 0 THEN {[crash |-> TRUE, read |-> <<>>]} ELSE {})

\* DMatrix::try_new
TryNew(t, d, s) ==
    /\ ~crashed /\ thr[t].pc = "idle" /\ dm[d].st = "none"
    /\ dm' = [dm EXCEPT ![d] = IF s = 0 THEN [NoDM EXCEPT !.st = "live", !.own = t]
                                ELSE [NoDM EXCEPT !.st = "failed"]]
    /\ last' = [NoLast EXCEPT !.op = "try_new", !.d = d,
                              !.res = IF s = 0 THEN Ok(<<>>) ELSE Err("Create"),
                              !.calls = <<Call("XGDMatrixCreateFromMat", -1, d, s)>>]
    /\ UNCHANGED <<bst, file, thr, crashed>>

\* DMatrix::try_from_data: the wrapper hands data.as_ptr(), rows and cols to the
\* native call, which reads rows*cols floats
TryFromDataResult(s) == IF s = 0 THEN Ok(<<>>) ELSE Err("Create")

TryFromData(t, d, data, rows, cols, s) ==
    /\ ~crashed /\ thr[t].pc = "idle" /\ dm[d].st = "none"
    /\ \E out \in ReadOutcomes(data, rows * cols) :
         IF out.crash
         THEN /\ crashed' = TRUE
              /\ last' = [NoLast EXCEPT !.op = "try_from_data", !.d = d, !.data = data,
                                        !.rows = rows, !.cols = cols, !.res = Abort]
              /\ UNCHANGED dm
         ELSE /\ dm' = [dm EXCEPT ![d] =
                          IF s = 0
                          THEN [NoDM EXCEPT !.st = "live", !.own = t, !.rows = rows,
                                            !.cols = cols, !.mat = out.read]
                          ELSE [NoDM EXCEPT !.st = "failed"]]
              /\ last' = [NoLast EXCEPT !.op = "try_from_data", !.d = d, !.data = data,
                                        !.rows = rows, !.cols = cols,
                                        !.res = TryFromDataResult(s),
                                        !.calls = <<Call("XGDMatrixCreateFromMat", -1, d, s)>>]
              /\ UNCHANGED crashed
    /\ UNCHANGED <<bst, file, thr>>

\* DMatrix::try_add_label: the native call is told to read self.rows floats
TryAddLabelResult(s) == IF s = 0 THEN Ok(<<>>) ELSE Err("Create")

TryAddLabel(t, d, data, s) ==
    /\ ~crashed /\ thr[t].pc = "idle" /\ dm[d].st = "live" /\ dm[d].own = t
    /\ CStringNew(StrLabel).ok
    /\ \E out \in ReadOutcomes(data, dm[d].rows) :
         IF out.crash
         THEN /\ crashed' = TRUE
              /\ last' = [NoLast EXCEPT !.op = "try_add_label", !.d = d, !.data = data,
                                        !.rows = dm[d].rows, !.res = Abort]
              /\ UNCHANGED dm
         ELSE /\ dm' = [dm EXCEPT ![d] =
                          IF s = 0 THEN [@ EXCEPT !.labSet = TRUE, !.lab = out.read] ELSE @]
              /\ last' = [NoLast EXCEPT !.op = "try_add_label", !.d = d, !.data = data,
                                        !.rows = dm[d].rows,
                                        !.res = TryAddLabelResult(s),
                                        !.calls = <<Call("XGDMatrixSetFloatInfo", -1, d, s)>>]
              /\ UNCHANGED crashed
    /\ UNCHANGED <<bst, file, thr>>

\* impl Drop for DMatrix
DMFreeCalls(n) == n + 1

DropDMatrix(t, d) ==
    /\ ~crashed /\ thr[t].pc = "idle" /\ dm[d].st = "live" /\ dm[d].own = t
    /\ dm' = [dm EXCEPT ![d] = [NoDM EXCEPT !.st = "dropped", !.frees = DMFreeCalls(dm[d].frees)]]
    /\ last' = [NoLast EXCEPT !.op = "drop_dmatrix", !.d = d,
                              !.calls = <<Call("XGDMatrixFree", -1, d, 0)>>]
    /\ UNCHANGED <<bst, file, thr, crashed>>

----------------------------------------------------------------------------
(* The native learner behind a BoosterHandle, and what it predicts *)

EmptyModel == [rounds |-> 0, nfeat |-> 0, groups |-> 1, fit |-> 0]

NoFile == [has |-> FALSE, model |-> EmptyModel, src |-> EmptyModel, by |-> 0]

NoBooster == [st |-> "none", model |-> EmptyModel, frees |-> 0]

NoThread == [pc |-> "idle", b |-> 0, d |-> 0, status |-> 0, buf |-> <<>>, nout |-> 0,
             model |-> EmptyModel, data |-> NoDM]

\* XGBoosterSetParam: num_class sets the number of outputs per row
ParseDigit(v) == IF Len(v) = 1 /\ v[1] \in 49..57 THEN v[1] - 48 ELSE 0

NativeSetParam(model, key, value) ==
    IF key = KeyNumClass /\ ParseDigit(value) > 0
    THEN [model EXCEPT !.groups = ParseDigit(value)]
    ELSE model

RowOf(d, r) == SubSeq(d.mat, (r - 1) * d.cols + 1, r * d.cols)

\* one boosting round on dtrain
NativeUpdate(model, d) ==
    [model EXCEPT !.rounds = @ + 1, !.nfeat = d.cols,
                  !.fit = SumSeq(d.lab) + SumSeq(d.mat)]

\* XGBoosterPredictFromDMatrix: rejected when the dataset has more columns
\* than the model has features; rows * groups values otherwise
NativePredictStatus(model, d) == IF d.cols > model.nfeat THEN -1 ELSE 0

NativePredictCount(model, d) == d.rows * model.groups

NativePredict(model, d) ==
    [k \in 1..NativePredictCount(model, d) |->
        LET r == ((k - 1) \div model.groups) + 1
            g == (k - 1) % model.groups
        IN  model.fit + model.rounds * SumSeq(RowOf(d, r)) + g]

----------------------------------------------------------------------------
(* Booster (src/src/booster.rs) *)

InFlight(b) == \E t \in Threads : thr[t].pc = "called" /\ thr[t].b = b

\* &mut self / by-value operations: the owner, with no shared borrow in use
Exclusive(b) == thr[MainThread].pc = "idle" /\ ~InFlight(b)

\* Booster::new
BoosterNewResult(s) == IF s = 0 THEN Ok(<<>>) ELSE Err("Create")

BoosterNew(b, s) ==
    /\ ~crashed /\ thr[MainThread].pc = "idle" /\ bst[b].st = "none"
    /\ bst' = [bst EXCEPT ![b] = IF s = 0 THEN [NoBooster EXCEPT !.st = "live"]
                                  ELSE [NoBooster EXCEPT !.st = "failed"]]
    /\ last' = [NoLast EXCEPT !.op = "new", !.b = b, !.res = BoosterNewResult(s),
                              !.calls = <<Call("XGBoosterCreate", -1, 0, s)>>]
    /\ UNCHANGED <<dm, file, thr, crashed>>

\* Booster::set_conf
SetConfResult(key, value, s) == IF s = 0 THEN Ok(<<>>) ELSE ErrConfig(key, value)

SetConf(b, key, value, s) ==
    /\ ~crashed /\ bst[b].st = "live" /\ Exclusive(b)
    /\ IF ~CStringNew(key).ok \/ ~CStringNew(value).ok
       THEN /\ last' = [NoLast EXCEPT !.op = "set_conf", !.b = b, !.key = key,
                                      !.value = value, !.res = Panic]
            /\ UNCHANGED bst
       ELSE /\ bst' = [bst EXCEPT ![b].model =
                          IF s = 0 THEN NativeSetParam(@, key, value) ELSE @]
            /\ last' = [NoLast EXCEPT !.op = "set_conf", !.b = b, !.key = key,
                                      !.value = value, !.res = SetConfResult(key, value, s),
                                      !.calls = <<Call("XGBoosterSetParam", -1, 0, s)>>]
    /\ UNCHANGED <<dm, file, thr, crashed>>

\* Booster::get_number_of_features
GetNumberOfFeaturesResult(n, s) == IF s = 0 THEN Ok(<<ToUsize(n)>>) ELSE Err("GetInfo")

GetNumberOfFeatures(t, b, s) ==
    /\ ~crashed /\ thr[t].pc = "idle" /\ bst[b].st = "live"
    /\ last' = [NoLast EXCEPT !.op = "get_number_of_features", !.b = b,
                              !.res = GetNumberOfFeaturesResult(bst[b].model.nfeat, s),
                              !.calls = <<Call("XGBoosterGetNumFeature", -1, 0, s)>>]
    /\ UNCHANGED <<dm, bst, file, thr, crashed>>

\* Booster::train: the loop over 0..num_boost.  failAt is the first round whose
\* native update reports a non-zero status (num_boost or more: none does).
\* (variant: the update is handed dtest)
UpdateDMatTest(dtrain, dtest) == dtest

UpdateDMat(dtrain, dtest) == dtrain

\* (variant: the error carries the next index)
TrainErrIndexNext(i) == i + 1

TrainErrIndex(i) == i

RECURSIVE TrainLoop(_, _, _, _, _, _, _)
TrainLoop(i, num_boost, failAt, dtrain, dtest, model, calls) ==
    IF i >= num_boost
    THEN [ok |-> TRUE, round |-> -1, model |-> model, calls |-> calls]
    ELSE LET s == IF i = failAt THEN -1 ELSE 0
             c == Append(calls, Call("XGBoosterUpdateOneIter", ToI32(i),
                                     UpdateDMat(dtrain, dtest), s))
         IN  IF s # 0
             THEN [ok |-> FALSE, round |-> TrainErrIndex(i), model |-> model, calls |-> c]
             ELSE TrainLoop(i + 1, num_boost, failAt, dtrain, dtest,
                            NativeUpdate(model, dm[UpdateDMat(dtrain, dtest)]), c)

\* the booster local to train is dropped when train returns early
\* (variant: the early return leaks the handle)
TrainFailLeak(n) == n

TrainFailFrees(n) == n + 1

Train(b, dtrain, dtest, num_boost, cs, failAt) ==
    /\ ~crashed /\ thr[MainThread].pc = "idle" /\ bst[b].st = "none"
    /\ dm[dtrain].st = "live" /\ dm[dtrain].own = MainThread
    /\ dm[dtest].st = "live" /\ dm[dtest].own = MainThread
    /\ LET create == Call("XGBoosterCreate", -1, dtrain, cs)
           run == TrainLoop(0, num_boost, failAt, dtrain, dtest, EmptyModel, <<create>>)
           calls == IF cs = 0 THEN run.calls ELSE <<create>>
           res == IF cs # 0 THEN Err("Create")
                  ELSE IF run.ok THEN Ok(<<>>) ELSE ErrTrain(run.round)
           new == IF cs # 0 THEN [NoBooster EXCEPT !.st = "failed"]
                  ELSE IF run.ok THEN [NoBooster EXCEPT !.st = "live", !.model = run.model]
                  ELSE [NoBooster EXCEPT !.st = "dropped", !.frees = TrainFailFrees(0)]
       IN  /\ dm' = dm
           /\ bst' = [bst EXCEPT ![b] = new]
           /\ last' = [NoLast EXCEPT !.op = "train", !.b = b, !.d = dtrain, !.d2 = dtest,
                                     !.n = num_boost, !.failAt = failAt, !.res = res,
                                     !.calls = calls, !.kept = (dm'[dtest] = dm[dtest])]
    /\ UNCHANGED <<file, thr, crashed>>

\* Booster::save_model
SaveModelResult(s) == IF s = 0 THEN Ok(<<>>) ELSE Err("Save")

SaveModel(t, b, fname, s) ==
    /\ ~crashed /\ thr[t].pc = "idle" /\ bst[b].st = "live"
    /\ IF ~CStringNew(fname).ok
       THEN /\ last' = [NoLast EXCEPT !.op = "save_model", !.b = b, !.key = fname,
                                      !.res = Panic]
            /\ UNCHANGED file
       ELSE /\ file' = IF s = 0
                       THEN [file EXCEPT ![fname] = [has |-> TRUE, model |-> bst[b].model,
                                                      src |-> bst[b].model, by |-> b]]
                       ELSE file
            /\ last' = [NoLast EXCEPT !.op = "save_model", !.b = b, !.key = fname,
                                      !.res = SaveModelResult(s),
                                      !.calls = <<Call("XGBoosterSaveModel", -1, 0, s)>>]
    /\ UNCHANGED <<dm, bst, thr, crashed>>

\* Booster::load_model: the native call succeeds when the file holds a model
NativeLoadStatus(f) == IF f.has THEN 0 ELSE -1

\* (variant: the status is not looked at)
LoadModelResultUnchecked(s) == Ok(<<>>)

LoadModelResult(s) == IF s = 0 THEN Ok(<<>>) ELSE Err("Load")

LoadPath(fname) == fname

LoadModel(b, fname) ==
    /\ ~crashed /\ bst[b].st = "live" /\ Exclusive(b)
    /\ IF ~CStringNew(fname).ok
       THEN /\ last' = [NoLast EXCEPT !.op = "load_model", !.b = b, !.key = fname,
                                      !.res = Panic]
            /\ UNCHANGED bst
       ELSE LET f == file[LoadPath(fname)]
                s == NativeLoadStatus(f)
            IN  /\ bst' = [bst EXCEPT ![b].model = IF s = 0 THEN f.model ELSE @]
                /\ last' = [NoLast EXCEPT !.op = "load_model", !.b = b, !.key = fname,
                                          !.res = LoadModelResult(s),
                                          !.calls = <<Call("XGBoosterLoadModel", -1, 0, s)>>]
    /\ UNCHANGED <<dm, file, thr, crashed>>

\* Booster::predict, in two steps: the native call fills the result buffer of
\* the calling thread, then the wrapper copies data.rows floats out of it
\* (variant: the prediction runs as a training step)
PredictModelTrained(model) == [model EXCEPT !.rounds = @ + 1]

PredictModelAfter(model) == model

PredictCall(t, b, d) ==
    /\ ~crashed /\ thr[t].pc = "idle" /\ bst[b].st = "live"
    /\ dm[d].st = "live" /\ dm[d].own = t
    /\ LET s == NativePredictStatus(bst[b].model, dm[d])
       IN thr' = [thr EXCEPT ![t] =
                    [NoThread EXCEPT !.pc = "called", !.b = b, !.d = d,
                       !.status = s,
                       !.buf = IF s = 0 THEN NativePredict(bst[b].model, dm[d]) ELSE <<>>,
                       !.nout = IF s = 0 THEN NativePredictCount(bst[b].model, dm[d]) ELSE 0,
                       !.model = bst[b].model, !.data = dm[d]]]
    /\ bst' = [bst EXCEPT ![b].model = PredictModelAfter(@)]
    /\ UNCHANGED <<dm, file, last, crashed>>

PredictSlice(buf, rows) == SubSeq(buf, 1, rows)

\* (variant: the status is not looked at)
PredictResultUnchecked(s, buf, rows) ==
    Ok(IF rows <= Len(buf) THEN PredictSlice(buf, rows) ELSE buf)

PredictResult(s, buf, rows) == IF s = 0 THEN Ok(PredictSlice(buf, rows)) ELSE Err("Predict")

PredictReturn(t) ==
    /\ ~crashed /\ thr[t].pc = "called"
    /\ LET res == PredictResult(thr[t].status, thr[t].buf, dm[thr[t].d].rows)
       IN  /\ thr' = [thr EXCEPT ![t] = NoThread]
           /\ last' = [NoLast EXCEPT !.op = "predict", !.b = thr[t].b, !.d = thr[t].d,
                                     !.rows = dm[thr[t].d].rows, !.cols = dm[thr[t].d].cols,
                                     !.data = dm[thr[t].d].mat, !.model = thr[t].model,
                                     !.res = res, !.nout = thr[t].nout,
                                     !.calls = <<Call("XGBoosterPredictFromDMatrix", -1,
                                                      thr[t].d, thr[t].status)>>]
    /\ UNCHANGED <<dm, bst, file, crashed>>

\* impl Drop for Booster
BoosterFreeCalls(n) == n + 1

DropBooster(b) ==
    /\ ~crashed /\ bst[b].st = "live" /\ Exclusive(b)
    /\ bst' = [bst EXCEPT ![b] = [@ EXCEPT !.st = "dropped", !.model = EmptyModel,
                                           !.frees = BoosterFreeCalls(@)]]
    /\ last' = [NoLast EXCEPT !.op = "drop_booster", !.b = b,
                              !.calls = <<Call("XGBoosterFree", -1, 0, 0)>>]
    /\ UNCHANGED <<dm, file, thr, crashed>>

----------------------------------------------------------------------------
(* Specifications *)

Init ==
    /\ dm = [d \in DMs |-> NoDM]
    /\ bst = [b \in Boosters |-> NoBooster]
    /\ file = [p \in Paths |-> NoFile]
    /\ thr = [t \in Threads |-> NoThread]
    /\ last = NoLast
    /\ crashed = FALSE

\* the datasets of the repository's tests, <<data, rows, cols>> (values x 10)
Samples == { <<<<1, 2, 3, 4>>, 2, 2>>, <<<<5, 12>>, 2, 1>> }
SampleLabels == { <<10, 20>> }

\* objects take the slots in the order they are created
FreeDM == {d \in DMs : dm[d].st = "none" /\ \A e \in DMs : e < d => dm[e].st # "none"}
FreeBooster ==
    {b \in Boosters : bst[b].st = "none" /\ \A e \in Boosters : e < b => bst[e].st # "none"}
DataSlot == CHOOSE d \in DMs : \A e \in DMs : d <= e
SharedBooster == CHOOSE b \in Boosters : \A e \in Boosters : b <= e

\* the paths save_model is given: the one the tests write, and one with a NUL
SavePaths == {PathYee, StrWithNul}

\* every operation, issued by one thread on one dataset: a booster that is
\* trained (or made by new) and a booster made by new, as in the tests
Next ==
    \/ \E s \in Statuses : TryNew(MainThread, DataSlot, s)
    \/ \E x \in Samples, s \in Statuses :
         TryFromData(MainThread, DataSlot, x[1], x[2], x[3], s)
    \/ \E l \in SampleLabels, s \in Statuses : TryAddLabel(MainThread, DataSlot, l, s)
    \/ DropDMatrix(MainThread, DataSlot)
    \/ \E b \in FreeBooster, s \in Statuses : BoosterNew(b, s)
    \/ \E b \in Boosters, c \in Confs, s \in Statuses : SetConf(b, c[1], c[2], s)
    \/ \E b \in Boosters, s \in Statuses : GetNumberOfFeatures(MainThread, b, s)
    \/ \E n \in 0..MaxRounds, cs \in Statuses, failAt \in 0..MaxRounds :
         failAt <= n /\ Train(SharedBooster, DataSlot, DataSlot, n, cs, failAt)
    \/ \E b \in Boosters, f \in SavePaths, s \in Statuses : SaveModel(MainThread, b, f, s)
    \/ \E b \in Boosters, f \in FNames : LoadModel(b, f)
    \/ \E b \in Boosters : PredictCall(MainThread, b, DataSlot)
    \/ PredictReturn(MainThread)
    \/ \E b \in Boosters : DropBooster(b)

Spec == Init /\ [][Next]_vars

\* datasets alone, with every buffer up to MaxLen and every shape up to MaxDim
NextData ==
    \/ \E s \in Statuses : TryNew(MainThread, DataSlot, s)
    \/ \E data \in SeqsUpTo(Floats, MaxLen), rows \in 0..MaxDim,
          cols \in 0..MaxDim, s \in Statuses :
         TryFromData(MainThread, DataSlot, data, rows, cols, s)
    \/ \E data \in SeqsUpTo(Floats, MaxLen), s \in Statuses :
         TryAddLabel(MainThread, DataSlot, data, s)
    \/ DropDMatrix(MainThread, DataSlot)

SpecData == Init /\ [][NextData]_vars

\* training and the lifetime of the handles, with two datasets
NextTrain ==
    \/ \E d \in FreeDM, s \in Statuses : TryNew(MainThread, d, s)
    \/ \E d \in FreeDM, x \in Samples, s \in Statuses :
         TryFromData(MainThread, d, x[1], x[2], x[3], s)
    \/ \E d \in DMs, l \in SampleLabels, s \in Statuses : TryAddLabel(MainThread, d, l, s)
    \/ \E d \in DMs : DropDMatrix(MainThread, d)
    \/ \E b \in FreeBooster, s \in Statuses : BoosterNew(b, s)
    \/ \E b \in FreeBooster, d \in DMs, d2 \in DMs, n \in 0..MaxRounds,
          cs \in Statuses, failAt \in 0..MaxRounds :
         failAt <= n /\ Train(b, d, d2, n, cs, failAt)
    \/ \E b \in Boosters : DropBooster(b)

SpecTrain == Init /\ [][NextTrain]_vars

\* one Booster shared by the threads, each predicting on a dataset of its own
NextPredict ==
    \/ \E t \in Threads, d \in FreeDM, x \in Samples, s \in Statuses :
         TryFromData(t, d, x[1], x[2], x[3], s)
    \/ \E d \in DMs, n \in 0..MaxRounds, cs \in Statuses, failAt \in 0..MaxRounds :
         failAt <= n /\ Train(SharedBooster, d, d, n, cs, failAt)
    \/ \E c \in Confs, s \in Statuses : SetConf(SharedBooster, c[1], c[2], s)
    \/ \E t \in Threads, s \in Statuses : GetNumberOfFeatures(t, SharedBooster, s)
    \/ \E t \in Threads, d \in DMs : PredictCall(t, SharedBooster, d)
    \/ \E t \in Threads : PredictReturn(t)

SpecPredict == Init /\ [][NextPredict]_vars

----------------------------------------------------------------------------
(* Claims *)

PublicOps == {"try_new", "try_from_data", "try_add_label", "new", "set_conf",
              "get_number_of_features", "train", "save_model", "load_model", "predict"}

AllZero(calls) == \A k \in 1..Len(calls) : calls[k].status = 0

\* C1 (as claimed): try_from_data succeeds when data.len() = rows*cols and the
\* native call reports 0, and for every input with data.len() # rows*cols it
\* returns an error and no dataset exists afterwards.
C1_ShapeChecked ==
    last.op = "try_from_data" =>
        /\ (Len(last.data) = last.rows * last.cols /\ last.calls # <<>> /\ AllZero(last.calls))
              => last.res.kind = "Ok"
        /\ Len(last.data) # last.rows * last.cols
              => (last.res.kind = "Err" /\ dm[last.d].st # "live")

\* C2 (as claimed): try_add_label returns an error whenever values.len() # rows,
\* and a stored label vector has exactly rows entries, all of them values the
\* caller passed.
C2_LabelLengthChecked ==
    /\ (last.op = "try_add_label" /\ Len(last.data) # last.rows) => last.res.kind = "Err"
    /\ \A d \in DMs : (dm[d].st = "live" /\ dm[d].labSet) =>
          /\ Len(dm[d].lab) = dm[d].rows
          /\ \A i \in 1..Len(dm[d].lab) : dm[d].lab[i] \in Floats

\* C3: train runs the rounds in the order 0, 1, ..., each at most once; it
\* returns a model only if all num_boost rounds succeeded; if round i is the
\* first to fail it returns Train(i) and no later round is run.
C3_RoundsInOrder ==
    last.op = "train" =>
        LET c == last.calls
        IN  /\ Len(c) >= 1 /\ c[1].fn = "XGBoosterCreate"
            /\ Len(c) <= last.n + 1
            /\ \A k \in 2..Len(c) :
                  c[k].fn = "XGBoosterUpdateOneIter" /\ c[k].iter = k - 2
            /\ \A k \in 1..(Len(c) - 1) : c[k].status = 0
            /\ (last.res.kind = "Ok") <=> (Len(c) = last.n + 1 /\ AllZero(c))
            /\ last.res.kind = "Ok" => bst[last.b].st = "live"
            /\ (c[1].status = 0 /\ c[Len(c)].status # 0)
                  => last.res = ErrTrain(c[Len(c)].iter)
            /\ last.res.err = "Train"
                  => (Len(c) = last.res.round + 2 /\ c[Len(c)].status # 0)

\* a train that failed at a round before the last one
C3_Witness ==
    /\ last.op = "train" /\ last.res.err = "Train"
    /\ last.res.round >= 1 /\ last.res.round + 1 < last.n

C5_OnePerRowAsReported ==
    (last.op = "predict" /\ last.res.kind = "Ok") =>
        /\ Len(last.res.vec) = last.rows
        /\ Len(last.res.vec) = last.nout

\* C6: a handle is released exactly once when its wrapper is dropped, also when
\* train fails after creating the booster; a live wrapper's handle is not
\* released, a failed creation releases nothing, and the handles an operation
\* passes to a native call are live.
HandleOk(o) ==
    /\ o.st = "live" => o.frees = 0
    /\ o.st = "dropped" => o.frees = 1
    /\ o.st \in {"none", "failed"} => o.frees = 0

C6_HandlesReleasedOnce ==
    /\ \A b \in Boosters : HandleOk(bst[b])
    /\ \A d \in DMs : HandleOk(dm[d])
    /\ last.op = "train" =>
          /\ dm[last.d].st = "live"
          /\ last.res.kind = "Ok" => bst[last.b].st = "live"
          /\ last.res.err = "Create" => bst[last.b].st = "failed"
          /\ last.res.err = "Train" => bst[last.b].st = "dropped"
    /\ (last.op \in {"new", "try_new", "try_from_data"} /\ last.res.kind = "Err")
          => (IF last.op = "new" THEN bst[last.b].st ELSE dm[last.d].st) = "failed"
    /\ last.op = "try_add_label" => dm[last.d].st = "live"
    /\ \A t \in Threads : thr[t].pc = "called"
          => (bst[thr[t].b].st = "live" /\ dm[thr[t].d].st = "live")

\* train failed after the booster was created, and its handle was released
C6_Witness ==
    /\ last.op = "train" /\ last.res.err = "Train"
    /\ bst[last.b].st = "dropped" /\ bst[last.b].frees = 1

\* what predict returns for a model and a dataset
PredictOutcome(model, d) ==
    PredictResult(NativePredictStatus(model, d), NativePredict(model, d), d.rows)

TypedError(op) ==
    CASE op \in {"try_new", "try_from_data", "try_add_label", "new"} -> {"Create"}
      [] op = "set_conf" -> {"Config"}
      [] op = "get_number_of_features" -> {"GetInfo"}
      [] op = "train" -> {"Create", "Train"}
      [] op = "save_model" -> {"Save"}
      [] op = "load_model" -> {"Load"}
      [] op = "predict" -> {"Predict"}
      [] OTHER -> {}

C8_TypedResults ==
    last.op \in PublicOps =>
        /\ last.res.kind \in {"Ok", "Err"}
        /\ (last.res.kind = "Ok") <=> (last.calls # <<>> /\ AllZero(last.calls))
        /\ last.res.kind = "Err" => last.res.err \in TypedError(last.op)
        /\ last.res.err = "Config" => (last.res.key = last.key /\ last.res.value = last.value)
        /\ \A k \in 1..(Len(last.calls) - 1) : last.calls[k].status = 0

\* C9: predict changes neither the model nor the dataset, and two predict calls
\* with the same model and the same dataset contents, interleaved on two
\* threads or one after the other, produce the same result.
SameInput(m1, d1, m2, d2) ==
    m1 = m2 /\ d1.mat = d2.mat /\ d1.rows = d2.rows /\ d1.cols = d2.cols

C10_DtestIgnored ==
    last.op = "train" =>
        /\ last.kept
        /\ last.calls[1].dmat = last.d
        /\ \A d2 \in DMs : (dm[d2].st = "live" /\ last.calls[1].status = 0) =>
              LET run == TrainLoop(0, last.n, last.failAt, last.d, d2, EmptyModel,
                                   <<last.calls[1]>>)
              IN  /\ run.calls = last.calls
                  /\ run.ok <=> (last.res.kind = "Ok")
                  /\ run.ok => run.model = bst[last.b].model
                  /\ ~run.ok => last.res = ErrTrain(run.round)

\* a successful train whose dtest is another dataset, of another shape, than dtrain
C10_Witness ==
    /\ last.op = "train" /\ last.res.kind = "Ok" /\ last.n >= 1
    /\ last.d # last.d2
    /\ dm[last.d].cols # dm[last.d2].cols
====
